---- MODULE Spec2Model ----
(***************************************************************************)
(* Model of the CloudSound radio-streaming service.                        *)
(*                                                                         *)
(*  - the ingestion pipeline of MusicDownloadedConsumer._process_message   *)
(*    (artist get-or-create, track create, station linking, commit or      *)
(*    rollback) against the catalog tables Artist, Track, RadioStation and *)
(*    StationTrack with their unique constraints and cascades;             *)
(*  - the streaming handlers stream_station and stream_track with the      *)
(*    active-connection gauge, the Range header and the object store.      *)
(*                                                                         *)
(* Spec is the ingestion pipeline, SpecStream the streaming handlers.      *)
(***************************************************************************)
EXTENDS Integers, Sequences, FiniteSets, Bags, TLC

VARIABLES
    \* ---- the catalog (committed rows) ----
    artists,      \* set of Artist rows
    tracks,       \* set of Track rows
    links,        \* set of StationTrack rows
    stations,     \* RadioStation rows: existing station id -> is_active
    \* ---- MusicDownloadedConsumer._process_message ----
    pc,           \* position of the ingest in progress, "idle" when none
    msg,          \* the notification being processed
    sess,         \* the open session: rows flushed but not committed
    pre,          \* history: the committed catalog when the ingest began
    txn,          \* number of transactions opened so far (source of fresh ids)
    last,         \* history: how the last ingest ended
    assigned,     \* history: per station, the order values of committed links, in sequence
    linkRes,      \* history: result of the last direct StationTrack insert
    \* ---- streaming handlers ----
    gauge,        \* streaming_connections_active, per station label
    reqs,         \* the requests started so far, in flight or finished (a bag of records)
    published,    \* the playback notifications the producer has sent (a bag)
    producer,     \* the module-level _producer of kafka_producer
    \* ---- MusicDownloadedConsumer: start, stop and the consumer threads ----
    running,      \* self._running
    consumer,     \* self._consumer: the thread whose feed client it holds, 0 for None
    threads,      \* the threads started so far: position in _run, feed client
    stopped       \* history: stop() was called and start() has not started a thread since

catalogVars == <<artists, tracks, links, stations>>
ingestVars == <<pc, msg, sess, pre, txn, last, assigned, linkRes>>
pubVars == <<published, producer>>
streamVars == <<gauge, reqs, published, producer>>
consumerVars == <<running, consumer, threads, stopped>>
vars == <<artists, tracks, links, stations, pc, msg, sess, pre, txn, last,
          assigned, linkRes, gauge, reqs, published, producer,
          running, consumer, threads, stopped>>

-----------------------------------------------------------------------------
(* Bounds *)

MaxTxn == 2
MaxReqs == 2
MaxThreads == 2

-----------------------------------------------------------------------------
(* Values *)

DEFAULT_TENANT_ID == "00000000-0000-0000-0000-000000000000"
OtherTenant == "11111111-1111-1111-1111-111111111111"

\* StationType
UPCOMING == "upcoming"
PAST == "past"
GENRE == "genre"

\* The radio stations of the model and their (immutable) type column.
StationIds == {"sPast", "sUp", "sGenre"}
StationType(s) ==
    CASE s = "sPast" -> PAST
      [] s = "sUp" -> UPCOMING
      [] s = "sGenre" -> GENRE

\* The stations whose is_active flag changes while the consumer runs; the flag
\* of the GENRE station is either value from the start.
ToggledStations == {"sPast", "sUp"}

\* The station ids that streaming requests name: the stations above, a station
\* without tracks and an id that no station has.
StreamStationIds == StationIds \cup {"sEmpty", "sNone"}

\* Strings the code inspects character by character are sequences of characters.
K_t1_m4a == <<"t", "1", ".", "m", "4", "a">>
K_b_opus == <<"b", ".", "o", "p", "u", "s">>
EmptyStr == <<>>

\* dict.get(key, default)
Get(d, k, default) == IF k \in DOMAIN d THEN d[k] ELSE default

\* Python truthiness of a string value: "" is falsy.  TruthyStr is for an atomic
\* string, TruthySeq for a string held as a sequence of characters.
TruthyStr(v) == v # ""
TruthySeq(v) == Len(v) > 0

\* str.endswith
EndsWith(s, suffix) ==
    /\ Len(s) >= Len(suffix)
    /\ SubSeq(s, Len(s) - Len(suffix) + 1, Len(s)) = suffix

\* The "music.downloaded" notifications fed to the consumer.
NoContext == [k \in {} |-> ""]
MsgT1 ==
    [file_path |-> K_t1_m4a, title |-> "X", artist |-> "Y", file_size |-> 1000,
     context |-> NoContext]
\* the same storage key with another title, artist and context
MsgT1Again ==
    [file_path |-> K_t1_m4a, title |-> "X2", artist |-> "Z", file_size |-> 1000,
     context |-> [concert_id |-> "c1"]]
\* a context whose concert_id key is present with an empty value
MsgEmptyConcert ==
    [file_path |-> K_b_opus, title |-> "B", artist |-> "Y", file_size |-> 500,
     context |-> [concert_id |-> ""]]
MsgEmptyPath ==
    [file_path |-> EmptyStr, title |-> "E", artist |-> "Y", file_size |-> 10,
     context |-> NoContext]
MsgNoPath ==
    [title |-> "N", artist |-> "Z", file_size |-> 10,
     context |-> [concert_id |-> "c1"]]
Messages == {MsgT1, MsgT1Again, MsgEmptyConcert, MsgEmptyPath, MsgNoPath}

NoMsg == [title |-> "none"]

-----------------------------------------------------------------------------
(* The catalog store: constraints and cascades of the tables *)

\* Faulty variants of the constraints (used to show that the properties below
\* depend on them): no constraint at all, a constraint on the wrong column.
TrackKeyTaken_NoCheck(rows, t) == FALSE
TrackKeyTaken_WrongColumn(rows, t) ==
    \E r \in rows : r.tenant_id = t.tenant_id /\ r.title = t.title
StationTrackTaken_NoCheck(rows, l) == FALSE

\* uq_tracks_tenant_file_path: is the (tenant, file_path) of row t taken in rows?
TrackKeyTaken(rows, t) ==
    \E r \in rows : r.tenant_id = t.tenant_id /\ r.file_path = t.file_path

\* uq_artists_tenant_name
ArtistNameTaken(rows, a) ==
    \E r \in rows : r.tenant_id = a.tenant_id /\ r.name = a.name

\* uq_station_track: is the (station, track) pair of row l taken in rows?
StationTrackTaken(rows, l) ==
    \E r \in rows : r.station_id = l.station_id /\ r.track_id = l.track_id

\* ForeignKey("artists.id", ondelete="CASCADE") of Track and
\* ForeignKey("tracks.id", ondelete="CASCADE") of StationTrack
\* faulty variant: the tracks of a deleted artist stay
TracksAfterArtistDelete_NoCascade(a) == tracks

\* tracks.artist_id ON DELETE CASCADE
TracksAfterArtistDelete(a) == {t \in tracks : t.artist_id # a.id}
LinksAfterTrackDelete(gone) == {l \in links : l.track_id \notin {t.id : t \in gone}}

Max(S) == CHOOSE x \in S : \A y \in S : y <= x

Append1(f, s, v) == [f EXCEPT ![s] = Append(@, v)]

-----------------------------------------------------------------------------
(* MusicDownloadedConsumer *)

EmptySess ==
    [artists |-> {}, tracks |-> {}, links |-> {}, artist_id |-> 0, track_id |-> 0,
     active |-> {}]

NoLast ==
    [msg |-> NoMsg, outcome |-> "none", err |-> "none", raised |-> FALSE, txn |-> 0,
     at |-> "idle"]

\* The committed Artist, Track and StationTrack rows
Catalog == [artists |-> artists, tracks |-> tracks, links |-> links]
NoPre == [artists |-> {}, tracks |-> {}, links |-> {}]

\* faulty variant: the suffix is never looked at
FileFormat_Default(file_path) == "mp3"

\* faulty variant: the .webm suffix is not recognised
FileFormat_NoWebm(file_path) ==
    IF EndsWith(file_path, <<".", "m", "4", "a">>) THEN "m4a"
    ELSE IF EndsWith(file_path, <<".", "o", "p", "u", "s">>) THEN "opus"
    ELSE "mp3"

\* _create_track: the format tag from the suffix of the storage key
FileFormat(file_path) ==
    IF EndsWith(file_path, <<".", "m", "4", "a">>) THEN "m4a"
    ELSE IF EndsWith(file_path, <<".", "o", "p", "u", "s">>) THEN "opus"
    ELSE IF EndsWith(file_path, <<".", "w", "e", "b", "m">>) THEN "webm"
    ELSE "mp3"

\* faulty variant: GENRE stations are left out
ShouldLink_SkipGenre(s, context) ==
    IF StationType(s) = UPCOMING THEN TruthyStr(Get(context, "concert_id", ""))
    ELSE StationType(s) = PAST

\* _link_to_stations: the membership decision for one active station
ShouldLink(s, context) ==
    IF StationType(s) = UPCOMING THEN TruthyStr(Get(context, "concert_id", ""))
    ELSE IF StationType(s) = PAST THEN TRUE
    ELSE IF StationType(s) = GENRE THEN TRUE
    ELSE FALSE

\* faulty variant: the maximum itself, not the maximum plus one
NextOrder_NoIncrement(rows, s) ==
    LET os == {l.order : l \in {r \in rows : r.station_id = s}}
    IN  IF os = {} THEN 1 ELSE Max(os)

\* _link_to_stations: select(StationTrack.order) ... order_by(desc).limit(1),
\* "or 0", plus one.  rows are the rows the session sees.
NextOrder(rows, s) ==
    LET os == {l.order : l \in {r \in rows : r.station_id = s}}
    IN  (IF os = {} THEN 0 ELSE Max(os)) + 1

\* select(RadioStation).where(RadioStation.is_active == True)
ActiveStations == {s \in DOMAIN stations : stations[s]}

\* faulty variant: the flushed Artist survives the rollback
Rollback_KeepsArtist(err) ==
    /\ pc' = "idle"
    /\ sess' = EmptySess
    /\ msg' = NoMsg
    /\ last' = [msg |-> msg, outcome |-> "rolledback", err |-> err, raised |-> TRUE,
                txn |-> txn, at |-> pc]
    /\ pre' = NoPre
    /\ artists' = artists \cup sess.artists
    /\ tracks' = tracks
    /\ links' = links
    /\ UNCHANGED <<stations, txn, assigned, linkRes>>

\* faulty variant: the failure handler deletes the Track row of the storage key
Rollback_DeletesTrack(err) ==
    /\ pc' = "idle"
    /\ sess' = EmptySess
    /\ msg' = NoMsg
    /\ last' = [msg |-> msg, outcome |-> "rolledback", err |-> err, raised |-> TRUE,
                txn |-> txn, at |-> pc]
    /\ pre' = NoPre
    /\ artists' = artists
    /\ tracks' = {t \in tracks : t.file_path # Get(msg, "file_path", EmptyStr)}
    /\ links' = links
    /\ UNCHANGED <<stations, txn, assigned, linkRes>>

\* the except branch of _process_message: rollback, log, raise
Rollback(err) ==
    /\ pc' = "idle"
    /\ sess' = EmptySess
    /\ msg' = NoMsg
    /\ last' = [msg |-> msg, outcome |-> "rolledback", err |-> err, raised |-> TRUE,
                txn |-> txn, at |-> pc]
    /\ pre' = NoPre
    /\ artists' = artists
    /\ tracks' = tracks
    /\ links' = links
    /\ UNCHANGED <<stations, txn, assigned, linkRes>>

\* faulty variant: the notification is not validated
BeginIngest_NoValidate(m) ==
    /\ pc = "idle"
    /\ txn < MaxTxn
    /\ pc' = "artist"
    /\ msg' = m
    /\ sess' = EmptySess
    /\ txn' = txn + 1
    /\ pre' = Catalog
    /\ UNCHANGED <<catalogVars, last, assigned, linkRes>>
    /\ UNCHANGED <<streamVars, consumerVars>>

\* _process_message up to the opening of the session
BeginIngest(m) ==
    /\ pc = "idle"
    /\ IF ~TruthySeq(Get(m, "file_path", EmptyStr))
       THEN \* "music_downloaded_no_file_path": log and return
            /\ last' = [msg |-> m, outcome |-> "dropped", err |-> "none",
                        raised |-> FALSE, txn |-> txn, at |-> "validate"]
            /\ UNCHANGED <<catalogVars, pc, msg, sess, pre, txn, assigned, linkRes>>
       ELSE /\ txn < MaxTxn
            /\ pc' = "artist"
            /\ msg' = m
            /\ sess' = EmptySess
            /\ txn' = txn + 1
            /\ pre' = Catalog
            /\ UNCHANGED <<catalogVars, last, assigned, linkRes>>
    /\ UNCHANGED <<streamVars, consumerVars>>

\* faulty variant: an Artist is created without looking for an existing one
GetOrCreateArtist_AlwaysCreate(fault) ==
    /\ pc = "artist"
    /\ LET name == Get(msg, "artist", "Unknown Artist")
           new == [id |-> txn, name |-> name, tenant_id |-> DEFAULT_TENANT_ID]
       IN  IF fault
           THEN Rollback("other")
           ELSE IF ArtistNameTaken(artists, new)
           THEN Rollback("duplicate")
           ELSE /\ sess' = [sess EXCEPT !.artist_id = new.id, !.artists = {new}]
                /\ pc' = "track"
                /\ UNCHANGED <<catalogVars, msg, pre, txn, last, assigned, linkRes>>
    /\ UNCHANGED <<streamVars, consumerVars>>

\* _get_or_create_artist
GetOrCreateArtist(fault) ==
    /\ pc = "artist"
    /\ LET name == Get(msg, "artist", "Unknown Artist")
           found == {a \in artists \cup sess.artists : a.name = name}
           new == [id |-> txn, name |-> name, tenant_id |-> DEFAULT_TENANT_ID]
       IN  IF fault \/ Cardinality(found) > 1
           THEN Rollback("other")     \* an execute() failure, or MultipleResultsFound
           ELSE IF found # {}
           THEN /\ sess' = [sess EXCEPT !.artist_id = (CHOOSE a \in found : TRUE).id]
                /\ pc' = "track"
                /\ UNCHANGED <<catalogVars, msg, pre, txn, last, assigned, linkRes>>
           ELSE IF ArtistNameTaken(artists, new)
           THEN Rollback("duplicate")
           ELSE /\ sess' = [sess EXCEPT !.artist_id = new.id, !.artists = {new}]
                /\ pc' = "track"
                /\ UNCHANGED <<catalogVars, msg, pre, txn, last, assigned, linkRes>>
    /\ UNCHANGED <<streamVars, consumerVars>>

\* _create_track
CreateTrack(fault) ==
    /\ pc = "track"
    /\ LET file_path == Get(msg, "file_path", EmptyStr)
           track == [id |-> txn,
                     title |-> Get(msg, "title", "Unknown Track"),
                     artist_id |-> sess.artist_id,
                     file_path |-> file_path,
                     file_size |-> Get(msg, "file_size", 0),
                     file_format |-> FileFormat(file_path),
                     tenant_id |-> DEFAULT_TENANT_ID]
       IN  IF fault THEN Rollback("other")
           ELSE IF TrackKeyTaken(tracks, track)
           THEN Rollback("duplicate")   \* flush: IntegrityError on uq_tracks_tenant_file_path
           ELSE /\ sess' = [sess EXCEPT !.tracks = {track}, !.track_id = track.id]
                /\ pc' = "link"
                /\ UNCHANGED <<catalogVars, msg, pre, txn, last, assigned, linkRes>>
    /\ UNCHANGED <<streamVars, consumerVars>>

\* _link_to_stations
LinkToStations(fault) ==
    /\ pc = "link"
    /\ LET context == Get(msg, "context", NoContext)
           chosen == {s \in ActiveStations : ShouldLink(s, context)}
           new == {[id |-> txn, station_id |-> s, track_id |-> sess.track_id,
                    order |-> NextOrder(links \cup sess.links, s)] : s \in chosen}
       IN  IF fault THEN Rollback("other")
           ELSE /\ sess' = [sess EXCEPT !.links = new, !.active = ActiveStations]
                /\ pc' = "commit"
                /\ UNCHANGED <<catalogVars, msg, pre, txn, last, assigned, linkRes>>
    /\ UNCHANGED <<streamVars, consumerVars>>

\* session.commit(): the pending StationTrack rows are flushed, then all rows
\* of the session become visible together.
Commit(fault) ==
    /\ pc = "commit"
    /\ IF fault THEN Rollback("other")
       ELSE IF \E l \in sess.links : StationTrackTaken(links, l)
       THEN Rollback("duplicate")
       ELSE /\ artists' = artists \cup sess.artists
            /\ tracks' = tracks \cup sess.tracks
            /\ links' = links \cup sess.links
            /\ assigned' = [s \in StationIds |->
                              IF \E l \in sess.links : l.station_id = s
                              THEN Append(assigned[s],
                                          (CHOOSE l \in sess.links : l.station_id = s).order)
                              ELSE assigned[s]]
            /\ last' = [msg |-> msg, outcome |-> "committed", err |-> "none",
                        raised |-> FALSE, txn |-> txn, at |-> pc]
            /\ pc' = "idle"
            /\ sess' = EmptySess
            /\ msg' = NoMsg
            /\ pre' = NoPre
            /\ UNCHANGED <<stations, txn, linkRes>>
    /\ UNCHANGED <<streamVars, consumerVars>>

\* The process dies while a session is open: the store aborts the transaction.
Crash ==
    /\ pc # "idle"
    /\ pc' = "idle"
    /\ sess' = EmptySess
    /\ msg' = NoMsg
    /\ last' = [msg |-> msg, outcome |-> "crashed", err |-> "none", raised |-> FALSE,
                txn |-> txn, at |-> pc]
    /\ pre' = NoPre
    /\ UNCHANGED <<catalogVars, txn, assigned, linkRes, streamVars, consumerVars>>

-----------------------------------------------------------------------------
(* Other writers of the catalog; they run between ingestion transactions. *)

DeleteTrack(t) ==
    /\ pc = "idle"
    /\ t \in tracks
    /\ tracks' = tracks \ {t}
    /\ links' = LinksAfterTrackDelete({t})
    /\ UNCHANGED <<artists, stations, ingestVars, streamVars, consumerVars>>

DeleteArtist(a) ==
    /\ pc = "idle"
    /\ a \in artists
    /\ artists' = artists \ {a}
    /\ tracks' = TracksAfterArtistDelete(a)
    /\ links' = LinksAfterTrackDelete(tracks \ TracksAfterArtistDelete(a))
    /\ UNCHANGED <<stations, ingestVars, streamVars, consumerVars>>

SetActive(s, b) ==
    /\ pc = "idle"
    /\ s \in DOMAIN stations
    /\ s \in ToggledStations
    /\ stations[s] # b
    /\ stations' = [stations EXCEPT ![s] = b]
    /\ UNCHANGED <<artists, tracks, links, ingestVars, streamVars, consumerVars>>

\* The stations that are deleted while the consumer runs.
DeletableStations == {"sGenre"}

\* faulty variant: the links of a deleted station stay
LinksAfterStationDelete_NoCascade(s) == links

\* station_tracks.station_id ON DELETE CASCADE
LinksAfterStationDelete(s) == {l \in links : l.station_id # s}

DeleteStation(s) ==
    /\ pc = "idle"
    /\ s \in DOMAIN stations
    /\ s \in DeletableStations
    /\ stations' = [x \in DOMAIN stations \ {s} |-> stations[x]]
    /\ links' = LinksAfterStationDelete(s)
    /\ UNCHANGED <<artists, tracks, ingestVars, streamVars, consumerVars>>

\* A direct insert of a StationTrack row for an existing station and track.
LinkPair(s, t) ==
    /\ pc = "idle"
    /\ txn < MaxTxn
    /\ s \in DOMAIN stations
    /\ t \in tracks
    /\ txn' = txn + 1
    /\ LET l == [id |-> txn + 1, station_id |-> s, track_id |-> t.id,
                 order |-> NextOrder(links, s)]
       IN  IF StationTrackTaken(links, l)
           THEN /\ linkRes' = "rejected"
                /\ UNCHANGED <<links, assigned>>
           ELSE /\ linkRes' = "added"
                /\ links' = links \cup {l}
                /\ assigned' = Append1(assigned, s, l.order)
    /\ UNCHANGED <<artists, tracks, stations, pc, msg, sess, pre, last, streamVars, consumerVars>>

-----------------------------------------------------------------------------
(* Specification of the ingestion pipeline *)

InitStations == {[s \in StationIds |-> s \in ToggledStations \/ g] : g \in BOOLEAN}

\* An Artist of the same name may already exist in another tenant's scope.
InitArtists ==
    { {}, {[id |-> 0, name |-> "Y", tenant_id |-> OtherTenant]} }

\* MusicDownloadedConsumer.__init__
ConsumerIdle ==
    /\ running = FALSE
    /\ consumer = 0
    /\ threads = <<>>
    /\ stopped = FALSE

StreamIdle ==
    /\ gauge = [s \in StreamStationIds |-> 0]
    /\ reqs = EmptyBag
    /\ published = EmptyBag
    /\ producer = "none"

Init ==
    /\ artists \in InitArtists
    /\ tracks = {}
    /\ links = {}
    /\ stations \in InitStations
    /\ pc = "idle"
    /\ msg = NoMsg
    /\ sess = EmptySess
    /\ pre = NoPre
    /\ txn = 0
    /\ last = NoLast
    /\ assigned = [s \in StationIds |-> <<>>]
    /\ linkRes = "none"
    /\ StreamIdle
    /\ ConsumerIdle

Next ==
    \/ \E m \in Messages : BeginIngest(m)
    \/ \E f \in BOOLEAN : GetOrCreateArtist(f)
    \/ \E f \in BOOLEAN : CreateTrack(f)
    \/ \E f \in BOOLEAN : LinkToStations(f)
    \/ \E f \in BOOLEAN : Commit(f)
    \/ Crash
    \/ \E t \in tracks : DeleteTrack(t)
    \/ \E a \in artists : DeleteArtist(a)
    \/ \E s \in StationIds, b \in BOOLEAN : SetActive(s, b)
    \/ \E s \in StationIds, t \in tracks : LinkPair(s, t)
    \/ \E s \in StationIds : DeleteStation(s)

Spec == Init /\ [][Next]_vars

-----------------------------------------------------------------------------
(* Strings: the operations of Python the streaming handlers apply to the
   Range header and to the response headers *)

Digits == <<"0", "1", "2", "3", "4", "5", "6", "7", "8", "9">>
IsDigit(c) == \E d \in 1..10 : Digits[d] = c
DigitVal(c) == (CHOOSE d \in 1..10 : Digits[d] = c) - 1

\* str.replace(old, ""): every occurrence of old is removed, left to right
RECURSIVE RemoveAll(_, _)
RemoveAll(s, old) ==
    IF Len(s) < Len(old) THEN s
    ELSE IF SubSeq(s, 1, Len(old)) = old
         THEN RemoveAll(SubSeq(s, Len(old) + 1, Len(s)), old)
         ELSE <<Head(s)>> \o RemoveAll(Tail(s), old)

\* str.split(sep) for a one-character separator
RECURSIVE Split(_, _)
Split(s, sep) ==
    IF \A i \in 1..Len(s) : s[i] # sep THEN <<s>>
    ELSE LET i == CHOOSE k \in 1..Len(s) : s[k] = sep /\ \A j \in 1..(k - 1) : s[j] # sep
         IN  <<SubSeq(s, 1, i - 1)>> \o Split(SubSeq(s, i + 1, Len(s)), sep)

\* str.strip() as int() applies it (blanks only)
RECURSIVE LStrip(_)
LStrip(s) == IF Len(s) > 0 /\ Head(s) = " " THEN LStrip(Tail(s)) ELSE s
RECURSIVE RStrip(_)
RStrip(s) == IF Len(s) > 0 /\ s[Len(s)] = " " THEN RStrip(SubSeq(s, 1, Len(s) - 1)) ELSE s

Unsigned(tok) ==
    LET t == RStrip(LStrip(tok))
    IN  IF Len(t) > 0 /\ (Head(t) = "+" \/ Head(t) = "-") THEN Tail(t) ELSE t

RECURSIVE DigitsValue(_)
DigitsValue(u) ==
    IF Len(u) = 0 THEN 0
    ELSE DigitsValue(SubSeq(u, 1, Len(u) - 1)) * 10 + DigitVal(u[Len(u)])

\* int(tok): does it parse (otherwise ValueError), and its value
IsIntLiteral(tok) ==
    Len(Unsigned(tok)) > 0 /\ \A i \in 1..Len(Unsigned(tok)) : IsDigit(Unsigned(tok)[i])
IntOf(tok) ==
    IF Head(LStrip(tok)) = "-" THEN 0 - DigitsValue(Unsigned(tok))
    ELSE DigitsValue(Unsigned(tok))

\* str(n) of an integer
RECURSIVE NatToStr(_)
NatToStr(n) ==
    IF n < 10 THEN <<Digits[n + 1]>>
    ELSE NatToStr(n \div 10) \o <<Digits[(n % 10) + 1]>>
IntToStr(n) == IF n < 0 THEN <<"-">> \o NatToStr(0 - n) ELSE NatToStr(n)

-----------------------------------------------------------------------------
(* stream_station and stream_track *)

\* an Optional[int]: None, or the number
Null == <<>>
Some(n) == <<n>>

\* request.headers.get("range") when the header is absent
NoRange == <<"None">>

H_100_199 == <<"b", "y", "t", "e", "s", "=", "1", "0", "0", "-", "1", "9", "9">>
H_900_ == <<"b", "y", "t", "e", "s", "=", "9", "0", "0", "-">>
H__500 == <<"b", "y", "t", "e", "s", "=", "-", "5", "0", "0">>
H_0_1999 == <<"b", "y", "t", "e", "s", "=", "0", "-", "1", "9", "9", "9">>
H_5_2 == <<"b", "y", "t", "e", "s", "=", "5", "-", "2">>
H_abc == <<"b", "y", "t", "e", "s", "=", "a", "b", "c", "-">>
H_0_x == <<"b", "y", "t", "e", "s", "=", "0", "-", "x">>
\* the Range headers requests carry
RangeHeaders == {NoRange, EmptyStr, H_100_199, H_900_, H__500, H_0_1999, H_5_2, H_abc, H_0_x}

\* "if range_header:"
RangePresent(range_header) == range_header # NoRange /\ TruthySeq(range_header)

\* The catalog and the object store the streaming requests run against.
K_c_webm == <<"c", ".", "w", "e", "b", "m">>
TrkA == [id |-> 1, title |-> "X", artist_id |-> 1, file_path |-> K_t1_m4a,
         file_size |-> 1000, file_format |-> "m4a", tenant_id |-> DEFAULT_TENANT_ID]
TrkB == [id |-> 2, title |-> "B", artist_id |-> 1, file_path |-> K_b_opus,
         file_size |-> 500, file_format |-> "opus", tenant_id |-> DEFAULT_TENANT_ID]
TrkC == [id |-> 3, title |-> "C", artist_id |-> 1, file_path |-> K_c_webm,
         file_size |-> 0, file_format |-> "webm", tenant_id |-> DEFAULT_TENANT_ID]
NoTrack == [id |-> 0, title |-> "", artist_id |-> 0, file_path |-> EmptyStr,
            file_size |-> 0, file_format |-> "", tenant_id |-> ""]
StreamArtists == {[id |-> 1, name |-> "Y", tenant_id |-> DEFAULT_TENANT_ID]}
StreamTracks == {TrkA, TrkB, TrkC}
StreamLinks ==
    { [id |-> 1, station_id |-> "sPast", track_id |-> 2, order |-> 2],
      [id |-> 2, station_id |-> "sPast", track_id |-> 1, order |-> 1],
      [id |-> 3, station_id |-> "sGenre", track_id |-> 2, order |-> 1],
      [id |-> 4, station_id |-> "sUp", track_id |-> 1, order |-> 1] }
StreamStations == [s \in StationIds \cup {"sEmpty"} |-> s # "sUp"]
\* the keys whose object is in the object store (the object of TrkB is missing)
StoredKeys == {K_t1_m4a, K_c_webm}
\* the track ids requests name; no track has the id 9
StreamTrackIds == {1, 2, 3, 9}

NewReq(kind, station_id, track_id) ==
    [kind |-> kind, station_id |-> station_id, track_id |-> track_id,
     pc |-> IF kind = "station" THEN "station" ELSE "track",
     track |-> NoTrack, range |-> NoRange,
     status |-> 0, headers |-> <<>>, start |-> 0, end |-> 0,
     resolved |-> "none", exists |-> FALSE, faulted |-> FALSE,
     inc |-> 0, dec |-> 0, calls |-> <<>>, pubs |-> 0, pubfail |-> FALSE,
     duration_seconds |-> Null]

\* the handler returns or raises: the response of the request
Respond(r, status, headers) ==
    [r EXCEPT !.pc = "done", !.status = status, !.headers = headers]

\* TrackService.get_tracks_for_station: the station's tracks by StationTrack.order
RECURSIVE TracksByOrder(_)
TracksByOrder(ls) ==
    IF ls = {} THEN <<>>
    ELSE LET l == CHOOSE x \in ls : \A y \in ls : x.order <= y.order
         IN  <<CHOOSE t \in tracks : t.id = l.track_id>> \o TracksByOrder(ls \ {l})
\* faulty variant: the station's tracks in descending order
GetTracksForStation_Descending(station_id) ==
    LET q == TracksByOrder({l \in links : l.station_id = station_id
                                           /\ \E t \in tracks : t.id = l.track_id})
    IN  [i \in 1..Len(q) |-> q[Len(q) + 1 - i]]

GetTracksForStation(station_id) ==
    TracksByOrder({l \in links : l.station_id = station_id
                                   /\ \E t \in tracks : t.id = l.track_id})

\* faulty variant: a missing end resolved to the size instead of the last byte
ResolveRange_EndIsLength(range_header, file_size) ==
    LET range_match == Split(RemoveAll(range_header, <<"b", "y", "t", "e", "s", "=">>), "-")
        has0 == TruthySeq(range_match[1])
        has1 == Len(range_match) > 1 /\ TruthySeq(range_match[2])
    IN  IF (has0 /\ ~IsIntLiteral(range_match[1])) \/ (has1 /\ ~IsIntLiteral(range_match[2]))
        THEN [ok |-> FALSE, start |-> 0, end |-> 0]
        ELSE [ok |-> TRUE,
              start |-> IF has0 THEN IntOf(range_match[1]) ELSE 0,
              end |-> IF has1 THEN IntOf(range_match[2]) ELSE file_size]

\* faulty variant: the interval clamped to the bytes of the object
ResolveRange_Clamped(range_header, file_size) ==
    LET range_match == Split(RemoveAll(range_header, <<"b", "y", "t", "e", "s", "=">>), "-")
        has0 == TruthySeq(range_match[1])
        has1 == Len(range_match) > 1 /\ TruthySeq(range_match[2])
        lastByte == file_size - 1
    IN  IF (has0 /\ ~IsIntLiteral(range_match[1])) \/ (has1 /\ ~IsIntLiteral(range_match[2]))
        THEN [ok |-> FALSE, start |-> 0, end |-> 0]
        ELSE [ok |-> TRUE,
              start |-> IF has0 THEN IntOf(range_match[1]) ELSE 0,
              end |-> IF has1 /\ IntOf(range_match[2]) < lastByte
                      THEN IntOf(range_match[2]) ELSE lastByte]

\* the Range header resolved against the recorded size:
\*   range_match = range_header.replace("bytes=", "").split("-")
\*   start = int(range_match[0]) if range_match[0] else 0
\*   end = int(range_match[1]) if len(range_match) > 1 and range_match[1] else file_size - 1
\* ok is FALSE when int() raises ValueError.
ResolveRange(range_header, file_size) ==
    LET range_match == Split(RemoveAll(range_header, <<"b", "y", "t", "e", "s", "=">>), "-")
        has0 == TruthySeq(range_match[1])
        has1 == Len(range_match) > 1 /\ TruthySeq(range_match[2])
    IN  IF (has0 /\ ~IsIntLiteral(range_match[1])) \/ (has1 /\ ~IsIntLiteral(range_match[2]))
        THEN [ok |-> FALSE, start |-> 0, end |-> 0]
        ELSE [ok |-> TRUE,
              start |-> IF has0 THEN IntOf(range_match[1]) ELSE 0,
              end |-> IF has1 THEN IntOf(range_match[2]) ELSE file_size - 1]

\* faulty variant: the byte count of an interval taken as exclusive
ContentLength_Exclusive(start, end) == end - start

\* content_length = end - start + 1
ContentLength(start, end) == end - start + 1

\* the headers of the partial-content response
PartialHeaders(track, start, end) ==
    ("Content-Range" :> (<<"b", "y", "t", "e", "s", " ">> \o IntToStr(start) \o <<"-">>
                           \o IntToStr(end) \o <<"/">> \o IntToStr(track.file_size)))
    @@ ("Accept-Ranges" :> <<"b", "y", "t", "e", "s">>)
    @@ ("Content-Length" :> IntToStr(ContentLength(start, end)))
    @@ ("Content-Type" :> <<"audio/", track.file_format>>)

\* faulty variant: the full response described as the range of all bytes
FullHeaders_AsRange(track) == PartialHeaders(track, 0, track.file_size - 1)

\* the headers of the full response
FullHeaders(track) ==
    ("Content-Length" :> IntToStr(track.file_size))
    @@ ("Content-Type" :> <<"audio/", track.file_format>>)
    @@ ("Accept-Ranges" :> <<"b", "y", "t", "e", "s">>)

Call(op, key, start, end) == [op |-> op, key |-> key, start |-> start, end |-> end]

\* From "range_header = request.headers.get(...)" to the return, the same in
\* both handlers: the request after the step.  fault: get_file / get_file_range
\* raises.
Deliver(r, range_header, fault) ==
    LET track == r.track
        rr == ResolveRange(range_header, track.file_size)
        q == [r EXCEPT !.range = range_header]
    IN  IF RangePresent(range_header)
        THEN IF ~rr.ok
             THEN Respond([q EXCEPT !.resolved = "malformed"], 500, <<>>)
             ELSE LET q2 == [q EXCEPT !.resolved = "ok", !.start = rr.start, !.end = rr.end,
                                      !.calls = Append(@, Call("get_file_range",
                                                   track.file_path, rr.start, rr.end))]
                  IN  IF fault THEN Respond([q2 EXCEPT !.faulted = TRUE], 500, <<>>)
                      ELSE Respond(q2, 206, PartialHeaders(track, rr.start, rr.end))
        ELSE LET q2 == [q EXCEPT !.calls = Append(@, Call("get_file", track.file_path, 0, 0))]
             IN  IF fault THEN Respond([q2 EXCEPT !.faulted = TRUE], 500, <<>>)
                 ELSE Respond(q2, 200, FullHeaders(track))

\* publish_playback_event: the event handed to the producer, and its key
\* faulty variant: the event keyed by its station
PlaybackEvent_KeyedByStation(station_id, track_id, duration_seconds) ==
    [station_id |-> station_id, track_id |-> IntToStr(track_id),
     duration_seconds |-> duration_seconds, key |-> <<station_id>>]

\* (track ids are numbers here, str(track_id) is their decimal form)
PlaybackEvent(station_id, track_id, duration_seconds) ==
    [station_id |-> station_id, track_id |-> IntToStr(track_id),
     duration_seconds |-> duration_seconds, key |-> IntToStr(track_id)]

\* what can go wrong in one publish: KafkaProducerClient() raises, connect()
\* raises, producer.send raises
PublishFaults == {"none", "create", "connect", "send"}

\* get_producer: _producer after the call, and whether the call raised.  The
\* instance is assigned to _producer before connect() is called on it.
GetProducer(pf) ==
    IF producer # "none" THEN [producer |-> producer, raised |-> FALSE]
    ELSE IF pf = "create" THEN [producer |-> "none", raised |-> TRUE]
    ELSE IF pf = "connect" THEN [producer |-> "unconnected", raised |-> TRUE]
    ELSE [producer |-> "connected", raised |-> FALSE]

\* faulty variant: a failed publish is raised to the caller
Publish_Raises(station_id, track_id, duration_seconds, pf) ==
    LET g == GetProducer(pf)
        sent == ~g.raised /\ pf # "send"
    IN  [producer |-> g.producer, sent |-> sent,
         event |-> PlaybackEvent(station_id, track_id, duration_seconds),
         raised |-> ~sent]

\* publish_playback_event: _producer after the call, whether the event was
\* sent, and whether the call raised ("except Exception" logs and returns)
Publish(station_id, track_id, duration_seconds, pf) ==
    LET g == GetProducer(pf)
    IN  [producer |-> g.producer,
         sent |-> ~g.raised /\ pf # "send",
         event |-> PlaybackEvent(station_id, track_id, duration_seconds),
         raised |-> FALSE]

\* the published bag after a publish
PublishedAfter(p) == IF p.sent THEN published (+) SetToBag({p.event}) ELSE published

\* faulty variant: the gauge is decremented on the way to every error response
GaugeAfter_OnAnyError(r, q) ==
    IF q.status \in {403, 404, 500}
    THEN [gauge EXCEPT ![r.station_id] = @ - 1]
    ELSE gauge

\* the "except Exception" branch of stream_station: the gauge is decremented
\* on the way to the 500 response
GaugeAfter(r, q) ==
    IF q.status = 500
    THEN [gauge EXCEPT ![r.station_id] = @ - 1]
    ELSE gauge

\* the request after a step of stream_station, with that decrement counted
CountDec(q) == IF q.status = 500 THEN [q EXCEPT !.dec = @ + 1] ELSE q

\* request r has moved on to q
Step(r, q) == reqs' = (reqs (-) SetToBag({r})) (+) SetToBag({q})

StartStation(station_id) ==
    /\ BagCardinality(reqs) < MaxReqs
    /\ reqs' = reqs (+) SetToBag({NewReq("station", station_id, 0)})
    /\ UNCHANGED <<catalogVars, ingestVars, consumerVars, gauge, pubVars>>

StartTrack(track_id) ==
    /\ BagCardinality(reqs) < MaxReqs
    /\ reqs' = reqs (+) SetToBag({NewReq("track", "", track_id)})
    /\ UNCHANGED <<catalogVars, ingestVars, consumerVars, gauge, pubVars>>

\* faulty variant: the is_active flag of the station is not looked at
StationGetStation_ActiveUnchecked(r, fault) ==
    /\ r.kind = "station" /\ r.pc = "station"
    /\ LET q == IF fault THEN Respond([r EXCEPT !.faulted = TRUE], 500, <<>>)
                ELSE IF r.station_id \notin DOMAIN stations THEN Respond(r, 404, <<>>)
                ELSE [r EXCEPT !.pc = "tracks"]
       IN  /\ Step(r, CountDec(q))
           /\ gauge' = GaugeAfter(r, q)
    /\ UNCHANGED <<catalogVars, ingestVars, consumerVars, pubVars>>

\* stream_station: station_service.get_station_by_id and the two checks on it
StationGetStation(r, fault) ==
    /\ r.kind = "station" /\ r.pc = "station"
    /\ LET q == IF fault THEN Respond([r EXCEPT !.faulted = TRUE], 500, <<>>)
                ELSE IF r.station_id \notin DOMAIN stations THEN Respond(r, 404, <<>>)
                ELSE IF ~stations[r.station_id] THEN Respond(r, 403, <<>>)
                ELSE [r EXCEPT !.pc = "tracks"]
       IN  /\ Step(r, CountDec(q))
           /\ gauge' = GaugeAfter(r, q)
    /\ UNCHANGED <<catalogVars, ingestVars, consumerVars, pubVars>>

\* stream_station: get_tracks_for_station, tracks[0], the metrics and the
\* playback event
StationGetTracks(r, fault, pf) ==
    /\ r.kind = "station" /\ r.pc = "tracks"
    /\ LET found == GetTracksForStation(r.station_id)
       IN  IF fault
           THEN /\ Step(r, CountDec(Respond([r EXCEPT !.faulted = TRUE], 500, <<>>)))
                /\ gauge' = [gauge EXCEPT ![r.station_id] = @ - 1]
                /\ UNCHANGED pubVars
           ELSE IF Len(found) = 0
           THEN /\ Step(r, Respond(r, 404, <<>>))
                /\ UNCHANGED <<gauge, pubVars>>
           ELSE LET p == Publish(r.station_id, found[1].id, Null, pf)
                    q == [r EXCEPT !.track = found[1], !.track_id = found[1].id,
                                   !.inc = @ + 1, !.pubs = @ + 1, !.pubfail = ~p.sent]
                IN  /\ published' = PublishedAfter(p)
                    /\ producer' = p.producer
                    /\ IF p.raised
                       THEN \* the exception reaches "except Exception"
                            /\ Step(r, CountDec(Respond(q, 500, <<>>)))
                            /\ UNCHANGED gauge
                       ELSE /\ Step(r, [q EXCEPT !.pc = "exists"])
                            /\ gauge' = [gauge EXCEPT ![r.station_id] = @ + 1]
    /\ UNCHANGED <<catalogVars, ingestVars, consumerVars>>

\* create_playback_event: the whole handler (it awaits nothing)
CreatePlaybackEvent(station_id, track_id, duration_seconds, pf) ==
    /\ BagCardinality(reqs) < MaxReqs
    /\ LET p == Publish(station_id, track_id, duration_seconds, pf)
           r == [NewReq("event", station_id, track_id) EXCEPT
                    !.duration_seconds = duration_seconds,
                    !.pubs = 1, !.pubfail = ~p.sent]
       IN  /\ published' = PublishedAfter(p)
           /\ producer' = p.producer
           /\ reqs' = reqs (+) SetToBag({Respond(r, IF p.raised THEN 500 ELSE 201, <<>>)})
    /\ UNCHANGED <<catalogVars, ingestVars, consumerVars, gauge>>

\* faulty variant: the answer of file_exists is not acted upon
CheckExists_Ignored(r, fault) ==
    LET q == [r EXCEPT !.calls = Append(@, Call("file_exists", r.track.file_path, 0, 0))]
    IN  IF fault THEN Respond([q EXCEPT !.faulted = TRUE], 500, <<>>)
        ELSE [q EXCEPT !.exists = r.track.file_path \in StoredKeys, !.pc = "fetch"]

\* faulty variant: a failing file_exists is taken for a missing object
CheckExists_FaultIsNotFound(r, fault) ==
    LET q == [r EXCEPT !.calls = Append(@, Call("file_exists", r.track.file_path, 0, 0))]
    IN  IF fault THEN Respond([q EXCEPT !.faulted = TRUE], 404, <<>>)
        ELSE IF r.track.file_path \notin StoredKeys THEN Respond(q, 404, <<>>)
        ELSE [q EXCEPT !.exists = TRUE, !.pc = "fetch"]

\* the existence check of a handler: the request after storage_client.file_exists
CheckExists(r, fault) ==
    LET q == [r EXCEPT !.calls = Append(@, Call("file_exists", r.track.file_path, 0, 0))]
    IN  IF fault THEN Respond([q EXCEPT !.faulted = TRUE], 500, <<>>)
        ELSE IF r.track.file_path \notin StoredKeys THEN Respond(q, 404, <<>>)
        ELSE [q EXCEPT !.exists = TRUE, !.pc = "fetch"]

\* stream_station: storage_client.file_exists
StationFileExists(r, fault) ==
    /\ r.kind = "station" /\ r.pc = "exists"
    /\ LET q == CheckExists(r, fault)
       IN  /\ Step(r, CountDec(q))
           /\ gauge' = GaugeAfter(r, q)
    /\ UNCHANGED <<catalogVars, ingestVars, consumerVars, pubVars>>

\* stream_station: the Range header, the fetch and the response
StationFetch(r, range_header, fault) ==
    /\ r.kind = "station" /\ r.pc = "fetch"
    /\ LET q == Deliver(r, range_header, fault)
       IN  /\ Step(r, CountDec(q))
           /\ gauge' = GaugeAfter(r, q)
    /\ UNCHANGED <<catalogVars, ingestVars, consumerVars, pubVars>>

\* stream_track: track_service.get_track_by_id
TrackGetTrack(r, fault) ==
    /\ r.kind = "track" /\ r.pc = "track"
    /\ LET found == {t \in tracks : t.id = r.track_id}
       IN  Step(r, IF fault THEN Respond([r EXCEPT !.faulted = TRUE], 500, <<>>)
                   ELSE IF found = {} THEN Respond(r, 404, <<>>)
                   ELSE [r EXCEPT !.track = CHOOSE t \in found : TRUE, !.pc = "exists"])
    /\ UNCHANGED <<catalogVars, ingestVars, consumerVars, gauge, pubVars>>

\* stream_track: storage_client.file_exists
TrackFileExists(r, fault) ==
    /\ r.kind = "track" /\ r.pc = "exists"
    /\ Step(r, CheckExists(r, fault))
    /\ UNCHANGED <<catalogVars, ingestVars, consumerVars, gauge, pubVars>>

\* stream_track: the Range header, the fetch and the response
TrackFetch(r, range_header, fault) ==
    /\ r.kind = "track" /\ r.pc = "fetch"
    /\ Step(r, Deliver(r, range_header, fault))
    /\ UNCHANGED <<catalogVars, ingestVars, consumerVars, gauge, pubVars>>

Requests == BagToSet(reqs)

\* close_producer: `if _producer:` close it and forget it.  The lifespan calls
\* it at shutdown, when no request is being served.
CloseProducer ==
    /\ \A r \in Requests : r.pc = "done"
    /\ producer # "none"
    /\ producer' = "none"
    /\ UNCHANGED <<catalogVars, ingestVars, consumerVars, gauge, reqs, published>>

\* the duration_seconds of the playback events posted: null or a number
EventDurations == {Null, Some(30)}

InitStream ==
    /\ artists = StreamArtists
    /\ tracks = StreamTracks
    /\ links = StreamLinks
    /\ stations = StreamStations
    /\ pc = "idle"
    /\ msg = NoMsg
    /\ sess = EmptySess
    /\ pre = NoPre
    /\ txn = 0
    /\ last = NoLast
    /\ assigned = [s \in StationIds |-> <<>>]
    /\ linkRes = "none"
    /\ StreamIdle
    /\ ConsumerIdle

NextStream ==
    \/ \E s \in StreamStationIds : StartStation(s)
    \/ \E t \in StreamTrackIds : StartTrack(t)
    \/ \E r \in Requests, f \in BOOLEAN : StationGetStation(r, f)
    \/ \E r \in Requests, f \in BOOLEAN, pf \in PublishFaults : StationGetTracks(r, f, pf)
    \/ \E d \in EventDurations, pf \in PublishFaults :
          CreatePlaybackEvent("sPast", 1, d, pf)
    \/ \E r \in Requests, f \in BOOLEAN : StationFileExists(r, f)
    \/ \E r \in Requests, h \in RangeHeaders, f \in BOOLEAN : StationFetch(r, h, f)
    \/ \E r \in Requests, f \in BOOLEAN : TrackGetTrack(r, f)
    \/ \E r \in Requests, f \in BOOLEAN : TrackFileExists(r, f)
    \/ \E r \in Requests, h \in RangeHeaders, f \in BOOLEAN : TrackFetch(r, h, f)
    \/ CloseProducer

SpecStream == InitStream /\ [][NextStream]_vars

-----------------------------------------------------------------------------
(* The ingestion pipeline fed with storage keys of many suffixes *)

\* suffixes of storage keys: the three the code knows, other extensions, an
\* upper-case one, a known one that is not at the end, one without the dot,
\* and none
KeySuffixes ==
    { <<".", "m", "4", "a">>, <<".", "o", "p", "u", "s">>, <<".", "w", "e", "b", "m">>,
      <<".", "m", "p", "3">>, <<".", "f", "l", "a", "c">>, <<".", "M", "4", "A">>,
      <<".", "m", "4", "a", ".", "b", "a", "k">>, <<"m", "4", "a">>, <<>> }
FormatKeys == {<<"k">> \o suffix : suffix \in KeySuffixes}
FormatMessages ==
    {[file_path |-> k, title |-> "X", artist |-> "Y", file_size |-> 1000,
      context |-> NoContext] : k \in FormatKeys}

InitFormat ==
    /\ artists = {}
    /\ tracks = {}
    /\ links = {}
    /\ stations = [s \in StationIds |-> TRUE]
    /\ pc = "idle"
    /\ msg = NoMsg
    /\ sess = EmptySess
    /\ pre = NoPre
    /\ txn = 0
    /\ last = NoLast
    /\ assigned = [s \in StationIds |-> <<>>]
    /\ linkRes = "none"
    /\ StreamIdle
    /\ ConsumerIdle

NextFormat ==
    \/ \E m \in FormatMessages : BeginIngest(m)
    \/ \E f \in BOOLEAN : GetOrCreateArtist(f)
    \/ \E f \in BOOLEAN : CreateTrack(f)
    \/ \E f \in BOOLEAN : LinkToStations(f)
    \/ \E f \in BOOLEAN : Commit(f)

SpecFormat == InitFormat /\ [][NextFormat]_vars

-----------------------------------------------------------------------------
(* MusicDownloadedConsumer: start(), stop() and the threads running _run *)

\* A thread that start() has just created: at the top of _run, no feed client.
\* late (history): the message it holds was yielded by the feed after a stop()
\* call that no start() has followed.
NewThread == [pc |-> "init", feed |-> "none", late |-> FALSE, failed |-> FALSE]

ThreadIds == 1..Len(threads)

\* the threads that have not left _run
Alive == {t \in ThreadIds : threads[t].pc # "exited"}

\* the threads inside _process_message
Processing == {t \in ThreadIds : threads[t].pc = "process"}

\* start()
Start ==
    /\ IF running
       THEN \* "music_downloaded_consumer_already_running"
            UNCHANGED consumerVars
       ELSE /\ Len(threads) < MaxThreads
            /\ running' = TRUE
            /\ threads' = Append([t \in ThreadIds |-> [threads[t] EXCEPT !.late = FALSE]],
                                 NewThread)
            /\ stopped' = FALSE
            /\ UNCHANGED consumer
    /\ UNCHANGED <<catalogVars, ingestVars, streamVars>>

\* stop(): the flag is cleared and the feed client held in self._consumer, if
\* any, is closed; the call returns without waiting for the thread
Stop ==
    /\ running' = FALSE
    /\ stopped' = TRUE
    /\ threads' = IF consumer # 0 /\ threads[consumer].feed = "open"
                  THEN [threads EXCEPT ![consumer].feed = "closed"]
                  ELSE threads
    /\ UNCHANGED consumer
    /\ UNCHANGED <<catalogVars, ingestVars, streamVars>>

\* _run up to "self._consumer = KafkaConsumerClient(...)"; fault: the engine or
\* the feed client cannot be created
CreateConsumer(t, fault) ==
    /\ threads[t].pc = "init"
    /\ IF fault
       THEN /\ threads' = [threads EXCEPT ![t].pc = "finally"]
            /\ UNCHANGED consumer
       ELSE /\ threads' = [threads EXCEPT ![t].pc = "consume", ![t].feed = "open"]
            /\ consumer' = t
    /\ UNCHANGED <<running, stopped>>
    /\ UNCHANGED <<catalogVars, ingestVars, streamVars>>

\* "for message in self._consumer.consume()": the feed yields a message
Yield(t) ==
    /\ threads[t].pc = "consume"
    /\ threads[t].feed = "open"
    /\ threads' = [threads EXCEPT ![t].pc = "check", ![t].late = stopped]
    /\ UNCHANGED <<running, consumer, stopped>>
    /\ UNCHANGED <<catalogVars, ingestVars, streamVars>>

\* consume() ends or raises: the feed client was closed, or the feed failed
EndConsume(t) ==
    /\ threads[t].pc = "consume"
    /\ threads' = [threads EXCEPT ![t].pc = "finally"]
    /\ UNCHANGED <<running, consumer, stopped>>
    /\ UNCHANGED <<catalogVars, ingestVars, streamVars>>

\* faulty variant: the loop does not look at the running flag
CheckRunning_NoBreak(t) ==
    /\ threads[t].pc = "check"
    /\ threads' = [threads EXCEPT ![t].pc = "process"]
    /\ UNCHANGED <<running, consumer, stopped>>
    /\ UNCHANGED <<catalogVars, ingestVars, streamVars>>

\* "if not self._running: break", else _process_message begins
CheckRunning(t) ==
    /\ threads[t].pc = "check"
    /\ threads' = [threads EXCEPT ![t].pc = IF running THEN "process" ELSE "finally"]
    /\ UNCHANGED <<running, consumer, stopped>>
    /\ UNCHANGED <<catalogVars, ingestVars, streamVars>>

\* faulty variant: an exception of _process_message ends the loop
EndProcess_FailureExits(t, raised) ==
    /\ threads[t].pc = "process"
    /\ threads' = [threads EXCEPT ![t].pc = IF raised THEN "finally" ELSE "consume",
                                  ![t].failed = raised]
    /\ UNCHANGED <<running, consumer, stopped>>
    /\ UNCHANGED <<catalogVars, ingestVars, streamVars>>

\* _process_message returns or raises; the loop logs an exception and goes on
EndProcess(t, raised) ==
    /\ threads[t].pc = "process"
    /\ threads' = [threads EXCEPT ![t].pc = "consume", ![t].failed = raised]
    /\ UNCHANGED <<running, consumer, stopped>>
    /\ UNCHANGED <<catalogVars, ingestVars, streamVars>>

\* the finally block of _run
ExitThread(t) ==
    /\ threads[t].pc = "finally"
    /\ running' = FALSE
    /\ threads' = [threads EXCEPT ![t].pc = "exited"]
    /\ UNCHANGED <<consumer, stopped>>
    /\ UNCHANGED <<catalogVars, ingestVars, streamVars>>

InitConsumer ==
    /\ artists = {}
    /\ tracks = {}
    /\ links = {}
    /\ stations = [s \in StationIds |-> TRUE]
    /\ pc = "idle"
    /\ msg = NoMsg
    /\ sess = EmptySess
    /\ pre = NoPre
    /\ txn = 0
    /\ last = NoLast
    /\ assigned = [s \in StationIds |-> <<>>]
    /\ linkRes = "none"
    /\ StreamIdle
    /\ ConsumerIdle

NextConsumer ==
    \/ Start
    \/ Stop
    \/ \E t \in ThreadIds, f \in BOOLEAN : CreateConsumer(t, f)
    \/ \E t \in ThreadIds : Yield(t)
    \/ \E t \in ThreadIds : EndConsume(t)
    \/ \E t \in ThreadIds : CheckRunning(t)
    \/ \E t \in ThreadIds, f \in BOOLEAN : EndProcess(t, f)
    \/ \E t \in ThreadIds : ExitThread(t)

SpecConsumer == InitConsumer /\ [][NextConsumer]_vars

\* Scheduling of a consumer thread: a daemon thread that can take a step of
\* its own takes it; consume() of a closed feed client ends.  Nothing is
\* assumed about the feed: an open feed may never yield a message, and
\* start() and stop() are called when the application decides.
ThreadFairness(t) ==
    /\ WF_vars(t \in ThreadIds /\ \E f \in BOOLEAN : CreateConsumer(t, f))
    /\ WF_vars(t \in ThreadIds /\ threads[t].feed = "closed" /\ EndConsume(t))
    /\ WF_vars(t \in ThreadIds /\ CheckRunning(t))
    /\ WF_vars(t \in ThreadIds /\ \E f \in BOOLEAN : EndProcess(t, f))
    /\ WF_vars(t \in ThreadIds /\ ExitThread(t))

SpecConsumerFair ==
    InitConsumer /\ [][NextConsumer]_vars /\ \A t \in 1..MaxThreads : ThreadFairness(t)

-----------------------------------------------------------------------------
(* Properties of the ingestion pipeline *)

\* the step that ends an ingest with a successful commit
CommitStep == pc = "commit" /\ pc' = "idle" /\ last'.outcome = "committed"

\* the rows a step adds to the catalog
NewArtists == artists' \ artists
NewTracks == tracks' \ tracks
NewLinks == links' \ links

DefaultKeyPresent(rows, file_path) ==
    \E t \in rows : t.tenant_id = DEFAULT_TENANT_ID /\ t.file_path = file_path

\* C2: the catalog holds at most one Track row per (tenant, storage key), after
\* any sequence of ingests, replays and notifications that share a storage key.
C2_OneTrackPerKey ==
    \A t1, t2 \in tracks :
        (t1.tenant_id = t2.tenant_id /\ t1.file_path = t2.file_path) => t1 = t2

\* a replay of an ingested storage key has been processed and one Track holds the key
C2_Witness ==
    /\ pc = "idle"
    /\ last.at = "track" /\ last.err = "duplicate"
    /\ Cardinality({t \in tracks : t.file_path = K_t1_m4a}) = 1

\* C3 (as claimed): a replay that hits the duplicate-key failure ends as a
\* no-op: the ingest returns normally, nothing is raised to the consumption loop.
C3_DuplicateIsSwallowed ==
    (last.outcome = "rolledback" /\ last.err = "duplicate" /\ last.at = "track")
        => ~last.raised

\* C4: every step of an open ingest other than its successful commit (a flush,
\* a failure with rollback, a crash) leaves the committed Artist, Track and
\* StationTrack rows as they were when the ingest began.
C4_AllOrNothing ==
    [][(pc # "idle" /\ ~CommitStep) => Catalog' = pre]_vars

\* an ingest failed at commit, after its artist, track and links were flushed,
\* and none of its rows (their ids are the transaction's number) is in the catalog
C4_Witness ==
    /\ pc = "idle"
    /\ last.outcome \in {"rolledback", "crashed"} /\ last.at = "commit"
    /\ last.msg = MsgT1Again
    /\ \A a \in artists : a.name # "Z"
    /\ \A t \in tracks : t.id # last.txn
    /\ \A l \in links : l.id # last.txn

\* C5: an ingest of a notification whose storage key already has a Track (a
\* re-delivery) ends with the Artist, Track and StationTrack rows it began with,
\* whatever the stations' active flags are at that time.
C5_ReplayAddsNothing ==
    [][(pc # "idle" /\ pc' = "idle"
          /\ DefaultKeyPresent(pre.tracks, Get(msg, "file_path", EmptyStr)))
        => Catalog' = pre]_vars

\* the key was re-delivered with another artist after the active stations
\* changed: no Artist "Z" and no second Track were added
C5_Witness ==
    /\ pc = "idle"
    /\ last.msg = MsgT1Again /\ last.outcome = "rolledback" /\ last.err = "duplicate"
    /\ \E s \in DOMAIN stations : ~stations[s]
    /\ \E t \in tracks : t.file_path = K_t1_m4a /\ t.title = "X"
    /\ \A a \in artists : a.name # "Z"
    /\ Cardinality(tracks) = 1

StrictlyIncreasing(q) == \A i, j \in 1..Len(q) : i < j => q[i] < q[j]

C8_OneLinkPerPair ==
    /\ [](\A l1, l2 \in links :
            (l1.station_id = l2.station_id /\ l1.track_id = l2.track_id) => l1 = l2)
    /\ [][(linkRes' = "rejected" /\ txn' # txn) => links' = links]_vars

\* an insert of a linked pair was attempted and rejected
C8_Witness ==
    /\ linkRes = "rejected"
    /\ links # {}

\* C9: ingesting {file_path "t1.m4a", artist "Y", title "X", file_size 1000,
\* context {}} with no artist "Y", the PAST and the UPCOMING station active
\* and without links, adds one Artist "Y", one Track of format "m4a" owned by
\* it, and one StationTrack, on the PAST station, with order 1.
C9_Scenario ==
    [][(/\ CommitStep
        /\ msg = MsgT1
        /\ \A a \in artists : a.name # "Y"
        /\ ActiveStations = {"sPast", "sUp"}
        /\ \A l \in links : l.station_id \notin {"sPast", "sUp"})
       =>
       (/\ \E a \in NewArtists :
             /\ NewArtists = {a}
             /\ a.name = "Y"
             /\ \E t \in NewTracks :
                   /\ NewTracks = {t}
                   /\ t.file_format = "m4a"
                   /\ t.file_size = 1000
                   /\ t.artist_id = a.id
                   /\ \E l \in NewLinks :
                         /\ NewLinks = {l}
                         /\ l.station_id = "sPast"
                         /\ l.track_id = t.id
                         /\ l.order = 1)]_vars

\* the scenario ran: the catalog holds exactly its three rows
C9_Witness ==
    /\ pc = "idle"
    /\ last.outcome = "committed" /\ last.msg = MsgT1
    /\ ActiveStations = {"sPast", "sUp"}
    /\ Cardinality(artists) = 1 /\ \A a \in artists : a.name = "Y"
    /\ Cardinality(tracks) = 1 /\ \A t \in tracks : t.file_format = "m4a"
    /\ Cardinality(links) = 1
    /\ \A l \in links : l.station_id = "sPast" /\ l.order = 1

\* the storage key of a notification is missing or empty
NoStorageKey(m) == ~TruthySeq(Get(m, "file_path", EmptyStr))

\* C20: a notification whose file_path is missing or empty is dropped: the
\* ingest returns without raising, opens no transaction and leaves Artists,
\* Tracks and StationTracks as they were; no such notification is ever in
\* processing.
C20_NoStorageKeyIsDropped ==
    /\ [](pc # "idle" => ~NoStorageKey(msg))
    /\ [][(last' # last /\ NoStorageKey(last'.msg))
            => /\ last'.outcome = "dropped" /\ ~last'.raised
               /\ Catalog' = Catalog
               /\ pc' = "idle" /\ txn' = txn]_vars

\* the notification without file_path key was dropped when the catalog held a
\* track already
C20_Witness ==
    /\ last.outcome = "dropped" /\ last.msg = MsgNoPath /\ ~last.raised
    /\ Cardinality(tracks) = 1

\* C21: there is at most one Artist per (tenant, name); a successful ingest
\* whose artist name is found by the lookup (an Artist row with exactly that
\* name exists) creates no Artist and its Track references an existing Artist
\* of that name; otherwise it creates exactly one Artist, of that name and with
\* an identity no Artist has, and its Track references it.
C21_ArtistGetOrCreate ==
    /\ [](\A a1, a2 \in artists :
            (a1.tenant_id = a2.tenant_id /\ a1.name = a2.name) => a1 = a2)
    /\ [][CommitStep =>
            LET name == Get(msg, "artist", "Unknown Artist")
                existing == {a \in artists : a.name = name}
            IN  /\ Cardinality(NewTracks) = 1
                /\ existing # {} =>
                      /\ NewArtists = {}
                      /\ \A t \in NewTracks : t.artist_id \in {a.id : a \in existing}
                /\ existing = {} =>
                      /\ Cardinality(NewArtists) = 1
                      /\ \A a \in NewArtists :
                            /\ a.name = name
                            /\ a.id \notin {x.id : x \in artists}
                            /\ \A t \in NewTracks : t.artist_id = a.id]_vars

\* two ingests with the artist name "Y" have committed: the first created the
\* Artist, the second references it
C21_Witness ==
    /\ pc = "idle" /\ last.outcome = "committed"
    /\ Cardinality(artists) = 1
    /\ \A a \in artists : a.name = "Y" /\ a.tenant_id = DEFAULT_TENANT_ID
    /\ Cardinality(tracks) = 2
    /\ \A t \in tracks : \E a \in artists : t.artist_id = a.id

\* C22 (as claimed): the Artist that owns a Track created by ingest is of the
\* tenant of the Track; an Artist of the same name in another tenant is not
\* taken as owner.
C22_ArtistLookupTenantScoped ==
    \A t \in tracks : \A a \in artists :
        a.id = t.artist_id => a.tenant_id = t.tenant_id

\* C26: the format tag of an ingested Track follows from the suffix of its
\* storage key: "m4a" for a key ending in .m4a, "opus" for .opus, "webm" for
\* .webm and "mp3" for every other key; it is one of these four values.
C26_FormatFromSuffix ==
    \A t \in tracks \cup sess.tracks :
        LET m4a == EndsWith(t.file_path, <<".", "m", "4", "a">>)
            opus == EndsWith(t.file_path, <<".", "o", "p", "u", "s">>)
            webm == EndsWith(t.file_path, <<".", "w", "e", "b", "m">>)
        IN  /\ m4a => t.file_format = "m4a"
            /\ opus => t.file_format = "opus"
            /\ webm => t.file_format = "webm"
            /\ ~(m4a \/ opus \/ webm) => t.file_format = "mp3"
            /\ t.file_format \in {"m4a", "opus", "webm", "mp3"}

\* a .webm key and a key with the upper-case suffix .M4A have been ingested
C26_Witness ==
    \E t1, t2 \in tracks :
        /\ t1.file_path = <<"k", ".", "w", "e", "b", "m">> /\ t1.file_format = "webm"
        /\ t2.file_path = <<"k", ".", "M", "4", "A">> /\ t2.file_format = "mp3"

-----------------------------------------------------------------------------
(* Properties of the consumer threads *)

\* thread t begins _process_message in this step
BeginsProcessing(t) == threads[t].pc = "check" /\ threads'[t].pc = "process"

\* C23: after stop() has been called (and no start() has followed it), no
\* notification begins processing: _process_message is not started for a
\* message that the feed yielded after that stop() call.
C23_NoProcessingAfterStop ==
    [][\A t \in ThreadIds : BeginsProcessing(t) => ~threads[t].late]_vars

\* a message yielded after stop() was met by the running check and the thread
\* left the loop without processing it
C23_Witness ==
    \E t \in ThreadIds :
        /\ stopped /\ ~running
        /\ threads[t].late /\ threads[t].pc = "finally"

\* C24 (as claimed): when stop() has returned, no ingestion transaction is
\* still in flight: the one in progress at the call has committed or rolled
\* back.
C24_StopWaitsForInFlight ==
    stopped => Processing = {}

\* C25 (as claimed): under any interleaving of start(), stop() and message
\* arrival at most one _process_message is in progress.
C25_OneAtATime ==
    Cardinality(Processing) <= 1

\* a step of an ingest: of _process_message, from validation to commit or
\* rollback
IngestStep == pc # "idle" \/ pc' # "idle" \/ last' # last

\* C36: ingest only appends to the catalog.  No step of an ingest removes or
\* changes an Artist, Track or StationTrack row or touches a RadioStation row,
\* and when an ingest ends, committed or failed, every row that existed when
\* it began is still there with the same fields.
C36_IngestOnlyAppends ==
    /\ [][IngestStep
            => /\ artists \subseteq artists'
               /\ tracks \subseteq tracks'
               /\ links \subseteq links'
               /\ stations' = stations]_vars
    /\ [][(pc # "idle" /\ pc' = "idle")
            => /\ pre.artists \subseteq artists'
               /\ pre.tracks \subseteq tracks'
               /\ pre.links \subseteq links']_vars

\* a second ingest has committed next to the rows of the first: the first
\* track and its link of order 1 are there beside the new ones
C36_Witness ==
    /\ pc = "idle" /\ last.outcome = "committed" /\ last.txn = 2
    /\ \E t \in tracks : t.id = 1
    /\ \E l \in links : l.track_id = 1 /\ l.order = 1
    /\ \E l \in links : l.track_id = 2 /\ l.order = 2

\* C37: referential integrity of the committed catalog: every Track
\* references exactly one existing Artist, every StationTrack an existing
\* RadioStation and an existing Track, after any sequence of ingests and
\* deletes with their cascades.
C37_ReferentialIntegrity ==
    /\ \A t \in tracks : Cardinality({a \in artists : a.id = t.artist_id}) = 1
    /\ \A l \in links :
          /\ l.station_id \in DOMAIN stations
          /\ \E t \in tracks : t.id = l.track_id

\* two ingests have committed; the track of the first is gone by a delete, a
\* station has been deleted, and the rows of the second are in the catalog
C37_Witness ==
    /\ pc = "idle" /\ last.outcome = "committed" /\ last.txn = 2
    /\ \E s \in StationIds : Len(assigned[s]) = 2
    /\ ~\E t \in tracks : t.id = 1
    /\ ~\E a \in artists : a.id = 1
    /\ DOMAIN stations # StationIds
    /\ \E t \in tracks : t.id = 2 /\ t.artist_id = 2
    /\ \E l \in links : l.track_id = 2

\* thread t leaves _process_message by an exception in this step
FailsProcessing(t) ==
    threads[t].pc = "process" /\ threads'[t].pc # "process" /\ threads'[t].failed

\* C32: an ingestion failure raised by _process_message to the consumption
\* loop does not end the loop: the thread goes back to the feed for the next
\* notification, its feed client and the running flag are as before, and no
\* thread exits by that step.
C32_LoopSurvivesFailure ==
    [][\A t \in ThreadIds :
          FailsProcessing(t)
          => /\ threads'[t].pc = "consume"
             /\ threads'[t].feed = threads[t].feed
             /\ running' = running
             /\ \A u \in ThreadIds : u # t => threads'[u] = threads[u]]_vars

\* a thread whose last notification failed is processing the next one
C32_Witness ==
    \E t \in ThreadIds :
        /\ threads[t].failed /\ threads[t].pc = "process"
        /\ running

\* C33 (as claimed): at most one consumer thread is alive at any time, under
\* any interleaving of start() and stop() with the steps of the thread.
C33_OneThreadAlive ==
    Cardinality(Alive) <= 1

\* C34 (as claimed): after a start() that started a thread, the running flag
\* stays true until the next stop() or until that thread exits; the exit of a
\* thread of an earlier start() does not clear it.
C34_FlagFollowsLastThread ==
    (Len(threads) > 0 /\ ~stopped /\ threads[Len(threads)].pc # "exited") => running

\* C35 (as claimed): after stop() the consumer threads terminate, unless the
\* consumer is started again first, given that consume() of a closed feed
\* client ends and that processing in flight finishes.
C35_StopLeadsToExit ==
    stopped ~> (~stopped \/ Alive = {})

-----------------------------------------------------------------------------
(* Properties of the streaming handlers *)

Finished(r) == r.pc = "done"

\* C1 (as claimed): a stream_station request that incremented the gauge of its
\* station has decremented it again when it ends, whatever its exit path
\* (200, 206, 404 for a missing audio object, 500).
C1_DecrementOnEveryExit ==
    \A r \in Requests :
        (r.kind = "station" /\ Finished(r) /\ r.inc = 1) => r.dec = 1

C11_FullContent ==
    \A r \in Requests :
        (Finished(r) /\ r.kind \in {"station", "track"} /\ r.range = NoRange
            /\ r.exists /\ ~r.faulted)
        => /\ r.status = 200
           /\ "Content-Range" \notin DOMAIN r.headers
           /\ IsIntLiteral(r.headers["Content-Length"])
           /\ IntOf(r.headers["Content-Length"]) = r.track.file_size

\* both handlers have answered a request without Range header on the 1000-byte
\* track with 200
C11_Witness ==
    \E r1, r2 \in Requests :
        /\ r1.kind = "station" /\ r2.kind = "track"
        /\ \A r \in {r1, r2} :
              /\ Finished(r) /\ r.status = 200 /\ r.range = NoRange
              /\ r.exists /\ r.track = TrkA
              /\ r.headers["Content-Length"] = <<"1", "0", "0", "0">>

\* the tokens of a Range header on the two sides of "-", after "bytes="
RangeTokens(h) == Split(RemoveAll(h, <<"b", "y", "t", "e", "s", "=">>), "-")
StartMissing(h) == RangeTokens(h)[1] = <<>>
EndMissing(h) == Len(RangeTokens(h)) < 2 \/ RangeTokens(h)[2] = <<>>

\* C12: with a Range header present, a missing start token resolves to start
\* 0 and a missing end token to end = recorded size - 1, in both handlers;
\* bytes=900- on the 1000-byte track gives end 999 and Content-Length 100,
\* bytes=-500 gives the interval [0, 500].
C12_RangeDefaults ==
    \A r \in Requests :
        (Finished(r) /\ RangePresent(r.range) /\ r.resolved = "ok")
        => /\ StartMissing(r.range) => r.start = 0
           /\ EndMissing(r.range) => r.end = r.track.file_size - 1
           /\ (r.range = H_900_ /\ r.track = TrkA) =>
                 /\ r.start = 900 /\ r.end = 999
                 /\ r.status = 206 => r.headers["Content-Length"] = <<"1", "0", "0">>
           /\ r.range = H__500 => (r.start = 0 /\ r.end = 500)
           /\ \A i \in 1..Len(r.calls) :
                 r.calls[i].op = "get_file_range" =>
                    (r.calls[i].start = r.start /\ r.calls[i].end = r.end)

\* bytes=900- was answered by one handler and bytes=-500 by the other
C12_Witness ==
    \E r1, r2 \in Requests :
        /\ r1.kind = "station" /\ r2.kind = "track"
        /\ Finished(r1) /\ r1.status = 206 /\ r1.range = H_900_ /\ r1.track = TrkA
        /\ r1.end = 999
        /\ Finished(r2) /\ r2.status = 206 /\ r2.range = H__500
        /\ r2.start = 0 /\ r2.end = 500

C14_MalformedIsDistinct ==
    \A r \in Requests :
        (Finished(r) /\ r.resolved = "malformed") => r.status # 500

\* C15: stream_station answers 404 for a station that does not exist, 403 for
\* a station that exists and is inactive (whatever its tracks and the Range
\* header), and 404 for an active station without linked track.
C15_StationRejections ==
    \A r \in Requests :
        (Finished(r) /\ r.kind = "station" /\ ~r.faulted)
        => /\ r.station_id \notin DOMAIN stations => r.status = 404
           /\ (r.station_id \in DOMAIN stations /\ ~stations[r.station_id])
                 => r.status = 403
           /\ (r.station_id \in DOMAIN stations /\ stations[r.station_id]
                  /\ Len(GetTracksForStation(r.station_id)) = 0)
                 => r.status = 404

\* the inactive station, which has a track, was answered with 403, and the
\* absent station or the station without tracks with 404
C15_Witness ==
    \E r1, r2 \in Requests :
        /\ Finished(r1) /\ r1.kind = "station" /\ r1.station_id = "sUp"
        /\ r1.status = 403 /\ Len(GetTracksForStation("sUp")) > 0
        /\ Finished(r2) /\ r2.kind = "station" /\ r2.station_id \in {"sNone", "sEmpty"}
        /\ r2.status = 404

\* the calls of a request that fetch bytes
IsFetch(c) == c.op \in {"get_file", "get_file_range"}

\* C16: in both handlers a request whose track is absent is answered 404
\* without any call to the object store, a request whose object is absent from
\* the store is answered 404 with no get_file or get_file_range call, and bytes
\* are fetched only after the catalog lookup found the track and the existence
\* check succeeded.
C16_LookupThenExistsThenFetch ==
    \A r \in Requests :
        /\ (r.kind \in {"station", "track"} /\ Finished(r) /\ ~r.faulted
               /\ r.track = NoTrack)
              => (r.status \in {403, 404} /\ r.calls = <<>>)
        /\ (r.kind = "track" /\ Finished(r) /\ ~r.faulted /\ r.track = NoTrack)
              => r.status = 404
        /\ (Finished(r) /\ ~r.faulted /\ r.track # NoTrack
               /\ r.track.file_path \notin StoredKeys)
              => /\ r.status = 404
                 /\ \A i \in 1..Len(r.calls) : ~IsFetch(r.calls[i])
        /\ \A i \in 1..Len(r.calls) :
              IsFetch(r.calls[i])
              => /\ r.track # NoTrack /\ r.track \in tracks
                 /\ r.exists
                 /\ i = 2
                 /\ r.calls[1] = Call("file_exists", r.track.file_path, 0, 0)
                 /\ r.calls[i].key = r.track.file_path

\* a request for a track that is not in the catalog and a request for a track
\* whose object is missing have both been answered with 404
C16_Witness ==
    \E r1, r2 \in Requests :
        /\ Finished(r1) /\ r1.kind = "track" /\ r1.track = NoTrack
        /\ r1.status = 404 /\ r1.calls = <<>>
        /\ Finished(r2) /\ r2.track = TrkB /\ r2.status = 404
        /\ Len(r2.calls) = 1

\* C17: a stream_station or stream_track request in which a catalog lookup or
\* an object-store call (file_exists, get_file, get_file_range) failed
\* unexpectedly is answered 500, and a request without such a failure that was
\* refused with 404 or 403 keeps that status: it is answered 500 only for a
\* failure (or a Range token that does not parse).
C17_FailuresAre500 ==
    \A r \in Requests :
        (Finished(r) /\ r.kind \in {"station", "track"})
        => /\ r.faulted => r.status = 500
           /\ (~r.faulted /\ r.resolved # "malformed") => r.status \in {200, 206, 403, 404}
           /\ (~r.faulted /\ r.kind = "station" /\ r.station_id \in DOMAIN stations
                  /\ ~stations[r.station_id]) => r.status = 403
           /\ (~r.faulted /\ (r.track = NoTrack \/ ~r.exists)) => r.status \in {403, 404}

\* a catalog lookup failed in one request and an object-store call in another;
\* both were answered 500
C17_Witness ==
    \E r1, r2 \in Requests :
        /\ Finished(r1) /\ r1.faulted /\ r1.calls = <<>> /\ r1.status = 500
        /\ Finished(r2) /\ r2.faulted /\ Len(r2.calls) > 0 /\ r2.status = 500

\* two requests of one handler that got the same inputs and the same answers
\* from the catalog and the object store
SameRun(r1, r2) ==
    /\ r1.kind = r2.kind /\ r1.station_id = r2.station_id /\ r1.track_id = r2.track_id
    /\ r1.duration_seconds = r2.duration_seconds
    /\ r1.range = r2.range /\ r1.faulted = r2.faulted /\ r1.calls = r2.calls

\* C18: a failed publish (producer creation, connect or send raising) does not
\* change the outcome of the operation: a stream_station request whose publish
\* failed goes on to the existence check and ends with the same status and
\* headers, after the same object-store calls, as one whose publish succeeded,
\* and create_playback_event answers 201 in both cases; publish_playback_event
\* does not raise.
C18_PublishFailureIsSwallowed ==
    /\ \A r \in Requests :
          (Finished(r) /\ r.pubs = 1)
          => /\ r.kind = "event" => r.status = 201
             /\ r.kind = "station" => Len(r.calls) >= 1
    /\ \A r1, r2 \in Requests :
          (Finished(r1) /\ Finished(r2) /\ r1.pubs = 1 /\ r2.pubs = 1 /\ SameRun(r1, r2))
          => (r1.status = r2.status /\ r1.headers = r2.headers)

\* a stream_station request was answered 200 and a playback event 201, both
\* after their publish had failed
C18_Witness ==
    \E r1, r2 \in Requests :
        /\ Finished(r1) /\ r1.kind = "station" /\ r1.pubfail /\ r1.status = 200
        /\ Finished(r2) /\ r2.kind = "event" /\ r2.pubfail /\ r2.status = 201

\* C19 (as claimed): every delivery that ends with 200 or 206, by either
\* handler, has attempted to publish exactly one playback-started notification
\* for the delivered track with a null duration.
C19_EveryDeliveryPublishes ==
    \A r \in Requests :
        (Finished(r) /\ r.kind \in {"station", "track"} /\ r.status \in {200, 206})
        => r.pubs = 1

\* the links of a station
StationLinks(s) == {l \in links : l.station_id = s}

\* C27: the track stream_station delivers is the first of the station's
\* StationTrack list by order, the track whose link has the smallest order
\* value in the station, whatever requests were served before: every request
\* for the station gets that track.
C27_FirstTrackByOrder ==
    \A r \in Requests :
        (r.kind = "station" /\ r.track # NoTrack)
        => /\ \E l \in StationLinks(r.station_id) :
                 /\ l.track_id = r.track.id
                 /\ \A l2 \in StationLinks(r.station_id) : l.order <= l2.order
           /\ r.track \in tracks
           /\ \A r2 \in Requests :
                 (r2.kind = "station" /\ r2.station_id = r.station_id
                     /\ r2.track # NoTrack) => r2.track = r.track

\* the station with two links, where the link inserted second has the smaller
\* order, has served two requests with the track of that link
C27_Witness ==
    \E r1, r2 \in Requests :
        /\ r1 # r2
        /\ \A r \in {r1, r2} :
              /\ r.kind = "station" /\ r.station_id = "sPast" /\ Finished(r)
              /\ r.status \in {200, 206} /\ r.track = TrkA
        /\ Cardinality(StationLinks("sPast")) = 2

\* the playback notifications sent so far
Published == BagToSet(published)

\* C28: every playback notification is sent with a key that is the string
\* form of its own track_id, so the notifications of one track share one key;
\* the notification of a stream_station request is keyed by the id of the
\* delivered track.
C28_KeyIsTrackId ==
    /\ \A e \in Published : e.key = e.track_id /\ IsIntLiteral(e.key)
    /\ \A e1, e2 \in Published :
          IntOf(e1.track_id) = IntOf(e2.track_id) => e1.key = e2.key
    /\ \A r \in Requests :
          (r.pubs = 1 /\ ~r.pubfail)
          => \E e \in Published :
                /\ e.key = IntToStr(r.track_id) /\ e.station_id = r.station_id
                /\ e.duration_seconds = r.duration_seconds

\* two different notifications of track 1 were sent, both with the key "1"
C28_Witness ==
    \E e1, e2 \in Published :
        /\ e1 # e2
        /\ e1.track_id = <<"1">> /\ e2.track_id = <<"1">>
        /\ e1.key = <<"1">> /\ e2.key = <<"1">>

\* C29 (as claimed): a stream_station request decrements the gauge only after
\* it has incremented it, so the gauge of every station stays >= 0, also when
\* the catalog lookup fails before the increment.
C29_GaugeNeverNegative ==
    /\ \A s \in StreamStationIds : gauge[s] >= 0
    /\ \A r \in Requests : r.dec <= r.inc

\* C30 (as claimed): stream_station publishes the playback-started
\* notification and increments the gauge only after the existence of the
\* object was confirmed, so a request that ends with 404 has published nothing.
C30_SideEffectsAfterVerification ==
    \A r \in Requests :
        /\ (r.kind = "station" /\ Finished(r) /\ r.status = 404)
              => (r.pubs = 0 /\ r.inc = 0)
        /\ (r.kind = "station" /\ (r.pubs > 0 \/ r.inc > 0)) => r.exists

\* a stream_station request that was refused for its station: absent, inactive
\* or without tracks
Rejected(r) ==
    /\ r.kind = "station" /\ Finished(r) /\ ~r.faulted
    /\ r.status \in {403, 404} /\ r.track = NoTrack

\* C31: a stream_station request rejected because the station is absent,
\* inactive or has no tracks has no side effects: the step that rejects it
\* leaves the gauge, the published notifications and the producer as they
\* were, and the request has not incremented or decremented the gauge,
\* published anything or called the object store.
C31_RejectionHasNoSideEffects ==
    /\ [](\A r \in Requests :
            Rejected(r) => (r.inc = 0 /\ r.dec = 0 /\ r.pubs = 0 /\ r.calls = <<>>))
    /\ [][(\E q \in BagToSet(reqs') : Rejected(q) /\ CopiesIn(q, reqs') > CopiesIn(q, reqs))
            => (gauge' = gauge /\ published' = published /\ producer' = producer)]_vars

\* the inactive station and the station without tracks have each rejected a
\* request, and every gauge is at 0
C31_Witness ==
    \E r1, r2 \in Requests :
        /\ Rejected(r1) /\ r1.station_id = "sUp" /\ r1.status = 403
        /\ Rejected(r2) /\ r2.station_id = "sEmpty" /\ r2.status = 404
        /\ \A s \in StreamStationIds : gauge[s] = 0
        /\ published = EmptyBag

C39_ProducerIsConnected ==
    producer # "unconnected"

====
